---- MODULE Spec2Model ----
(***************************************************************************)
(* Model of the ffaas edge runtime: the runtime actor of                   *)
(* pkg/actrs/runtime.go (Receive, exec, RequestModule) together with the   *)
(* collaborators it talks to (metadata store, metric store, module cache,  *)
(* ingress worker, actor engine).                                          *)
(***************************************************************************)
EXTENDS Integers, Sequences, FiniteSets, TLC

\* ------------------------------------------------------------------ bounds

\* Number of HTTP requests (hence runtime workers, one per wire request).
NumRequests == 2

\* Size in bytes of a guest's linear memory.
MemSize == 4

\* ------------------------------------------------------------- identifiers

ReqIds == <<"r1", "r2", "r3", "r4", "r5">>
Requests == {ReqIds[i] : i \in 1..NumRequests}
\* The module-cache specification runs one request more.
CacheRequests == {ReqIds[i] : i \in 1..(NumRequests + 1)}

\* The zero UUID: an endpoint's ActiveDeployID before the first publish.
Nil == "nil"
\* No compilation cache (a module-cache miss).
NoCache == "nocache"

EndpointIds == {"e1", "e2"}
DeployIds == {"d1", "d2", "d3"}
\* Every id a uuid-keyed map of the program may be asked about.
UUIDs == EndpointIds \cup DeployIds

\* The deployments of the metadata store: d1 and d2 belong to e1, d3 to e2.
DeployEndpoint(d) == IF d = "d3" THEN "e2" ELSE "e1"

\* The blob of each deployment.  "echo" and "hello" are valid WASM programs,
\* "somefakeblob" is not WASM at all.
DeployBlob(d) ==
    CASE d = "d1" -> "echo"
      [] d = "d2" -> "hello"
      [] OTHER    -> "somefakeblob"

\* The guest-visible path of each request (the part after /live/{id}).
RequestURL(r) == "/" \o r

\* ------------------------------------------------------------------ state

VARIABLES
    endpoints,    \* metadata store: endpoint id -> endpoint record
    deploys,      \* metadata store: deploy id -> deployment record
    cache,        \* module cache: endpoint id -> compilation cache (or NoCache)
    compiled,     \* heap of compilation caches: cache id -> blobs compiled in it
    metrics,      \* metric store: the runtime metrics created so far
    worker,       \* the runtime actor spawned for each wire request
    net,          \* wire responses sent and not yet delivered to the ingress
    responses,    \* ingress: request ids whose HTTP handler awaits a response
    httpReplies,  \* ingress: the HTTP replies written for each request
    lastPut,      \* history: the compilation cache last put under each key
    call          \* the call being made to the control plane or to a helper

vars == <<endpoints, deploys, cache, compiled, metrics, worker, net,
          responses, httpReplies, lastPut, call>>

\* The variables of the wasm server (everything but the recorded call).
serverVars == <<endpoints, deploys, cache, compiled, metrics, worker, net,
                responses, httpReplies, lastPut>>

\* -------------------------------------------------- guest memory and ABI

\* The data segment each valid blob starts its linear memory with.
BlobData(blob) ==
    [i \in 1..MemSize |->
        IF blob = "hello"
        THEN (IF i = 1 THEN "h" ELSE IF i = 2 THEN "e" ELSE IF i = 3 THEN "y" ELSE "_")
        ELSE "_"]

\* The host calls each valid blob makes, in order, when it runs.
BlobOps(blob) ==
    IF blob = "echo"
    THEN << [op |-> "write_request", offset |-> 0, size |-> 0],
            [op |-> "write_response", offset |-> 0, size |-> 1] >>
    ELSE << [op |-> "write_response", offset |-> 0, size |-> 2],
            [op |-> "write_response", offset |-> 2, size |-> 1] >>

\* wazero rejects a blob that is not WASM.
BlobCompiles(blob) == blob \in {"echo", "hello"}

\* prot.Marshal of a wire request: its fields in tag order.
Marshal(msg) == <<msg.ID, msg.EndpointID, msg.URL>>

\* Memory.Write: copies bytes to offset, or does nothing when out of range.
MemoryWrite(mem, offset, bytes) ==
    IF offset + Len(bytes) > Len(mem)
    THEN mem
    ELSE [i \in 1..Len(mem) |->
            IF i > offset /\ i <= offset + Len(bytes) THEN bytes[i - offset] ELSE mem[i]]

\* Memory.Read: a view of size bytes at offset; ok is false when out of range.
MemoryRead(mem, offset, size) ==
    IF offset + size > Len(mem)
    THEN [ok |-> FALSE, offset |-> 0, size |-> 0]
    ELSE [ok |-> TRUE, offset |-> offset, size |-> size]

\* The bytes a view denotes in a memory.
ViewBytes(mem, view) ==
    IF view.ok THEN SubSeq(mem, view.offset + 1, view.offset + view.size) ELSE <<>>

\* One request module for the whole process, made for the first request.
NewRequestModuleShared(msg) ==
    [requestBytes |-> Marshal([msg EXCEPT !.ID = "r1", !.URL = "/r1"]),
     responseBytes |-> [ok |-> FALSE, offset |-> 0, size |-> 0]]

\* The request module of one request.  responseBytes is the slice
\* Memory.Read returned: a view of guest memory, not a copy.  A running
\* guest g is its memory, its request module and the number of
\* write_response calls it has made.
NewRequestModule(msg) ==
    [requestBytes |-> Marshal(msg),
     responseBytes |-> [ok |-> FALSE, offset |-> 0, size |-> 0]]

moduleWriteRequest(g, offset) ==
    [g EXCEPT !.mem = MemoryWrite(g.mem, offset, g.httpmod.requestBytes)]

moduleWriteResponse(g, offset, size) ==
    [g EXCEPT !.httpmod.responseBytes = MemoryRead(g.mem, offset, size),
              !.writes = @ + 1]

HostCall(g, o) ==
    IF o.op = "write_request"
    THEN moduleWriteRequest(g, o.offset)
    ELSE moduleWriteResponse(g, o.offset, o.size)

\* One instruction of the guest: a store of a byte into its own linear
\* memory, or a call of a host function.
GuestStep(g, o) ==
    IF o.op = "store"
    THEN [g EXCEPT !.mem = MemoryWrite(g.mem, o.offset, <<o.byte>>)]
    ELSE HostCall(g, o)

\* The guest executes its first k instructions (it traps after them when k
\* is less than the length of its program).
RECURSIVE RunGuest(_, _, _)
RunGuest(g, ops, k) ==
    IF k = 0 THEN g ELSE GuestStep(RunGuest(g, ops, k - 1), ops[k])

\* ---------------------------------------------------------- runtime.exec

\* A slice of the keys alone.
envMapToSliceKeys(env) == {k : k \in DOMAIN env}

\* envMapToSlice: one "key=value" string for each entry of the map.  The
\* order of the slice is the iteration order of the map, which Go leaves
\* open; the strings are kept as a set.
envMapToSlice(env) == {k \o "=" \o env[k] : k \in DOMAIN env}

\* An exec that closes what it opened in its last statements instead of
\* deferring: the early returns leave the runtime open.
DeferredAtEnd(result) ==
    IF result \in {"compileFailed", "wasiFailed"}
    THEN <<>>
    ELSE <<"runtime.Close", "system.Close">>

\* The calls exec has deferred when it returns with each result:
\* runtime.Close right after the runtime is built, system.Close once
\* builder.Instantiate has succeeded.
Deferred(result) ==
    IF result \in {"compileFailed", "wasiFailed"}
    THEN <<"runtime.Close">>
    ELSE <<"runtime.Close", "system.Close">>

\* The deferred calls in the order they run when the function returns: the
\* last deferred first.
RunDefers(defers) == [i \in 1..Len(defers) |-> defers[Len(defers) + 1 - i]]

\* exec: build a runtime on the compilation cache, compile the blob,
\* instantiate WASI (with the environment) and the host module, run the
\* guest, close what was opened.  wasiFails and k are what the environment
\* and the guest decide: whether builder.Instantiate fails, and how many
\* instructions the guest executes before it stops (a trap when k is less
\* than the length of its program).
exec(blob, env, httpmod, wasiFails, k) ==
    LET result == IF ~BlobCompiles(blob) THEN "compileFailed"
                  ELSE IF wasiFails THEN "wasiFailed"
                  ELSE IF k < Len(BlobOps(blob)) THEN "guestFailed"
                  ELSE "ok"
        started == result \in {"guestFailed", "ok"}
        g == IF started
             THEN RunGuest([mem |-> BlobData(blob), httpmod |-> httpmod, writes |-> 0],
                           BlobOps(blob), k)
             ELSE [mem |-> <<>>, httpmod |-> httpmod, writes |-> 0]
        closed == RunDefers(Deferred(result))
    IN  [result |-> result,
         didCompile |-> BlobCompiles(blob),
         guestEnv |-> IF started THEN envMapToSlice(env) ELSE {},
         responseBytes |-> ViewBytes(g.mem, g.httpmod.responseBytes),
         writes |-> g.writes,
         closed |-> closed,
         runtimeClosed |-> \E i \in 1..Len(closed) : closed[i] = "runtime.Close",
         systemOpened |-> started,
         systemClosed |-> \E i \in 1..Len(closed) : closed[i] = "system.Close"]

\* ------------------------------------------------ stores and module cache

NoEndpoint == [ID |-> Nil, ActiveDeployID |-> Nil, Environment |-> <<>>]
NoDeploy == [ID |-> Nil, EndpointID |-> Nil, Blob |-> ""]
NoMsg == [ID |-> Nil, EndpointID |-> Nil, URL |-> ""]
\* No call to the control plane or to a helper is recorded.
NoCall == [fn |-> "none"]

\* store.GetEndpoint / store.GetDeploy: the record, or an error when the id
\* is unknown.
StoreGetEndpoint(id) ==
    IF id \in DOMAIN endpoints
    THEN [ok |-> TRUE, val |-> endpoints[id]]
    ELSE [ok |-> FALSE, val |-> NoEndpoint]

StoreGetDeploy(id) ==
    IF id \in DOMAIN deploys
    THEN [ok |-> TRUE, val |-> deploys[id]]
    ELSE [ok |-> FALSE, val |-> NoDeploy]

\* cache.Get / cache.Put of the module cache.
CacheGet(id) ==
    IF id \in DOMAIN cache /\ cache[id] # NoCache
    THEN [ok |-> TRUE, val |-> cache[id]]
    ELSE [ok |-> FALSE, val |-> NoCache]

CachePut(id, modcache) == [cache EXCEPT ![id] = modcache]

\* ------------------------------------------------------------------- init

IdleWorker ==
    [pc |-> "none", msg |-> NoMsg, endpoint |-> NoEndpoint, deploy |-> NoDeploy,
     modcache |-> NoCache, hit |-> FALSE,
     requestBytes |-> <<>>, responseBytes |-> <<>>,
     result |-> "none", ranBlob |-> "", writes |-> 0,
     guestEnv |-> {}, closed |-> <<>>,
     runtimeClosed |-> FALSE, systemOpened |-> FALSE, systemClosed |-> FALSE,
     execs |-> 0, puts |-> 0, sent |-> <<>>, poisoned |-> FALSE]

\* The module cache and the metric store are empty, no request has arrived
\* and no runtime actor exists.
InitRuntime ==
    /\ cache = [u \in UUIDs |-> NoCache]
    /\ lastPut = [u \in UUIDs |-> NoCache]
    /\ compiled = [r \in CacheRequests |-> {}]
    /\ metrics = {}
    /\ worker = [r \in CacheRequests |-> IdleWorker]
    /\ net = {}
    /\ responses = {}
    /\ httpReplies = [r \in CacheRequests |-> <<>>]

\* The wasm server starts on a metadata store that holds the endpoints and
\* deployments the control plane created; nothing is published yet, the
\* module cache and the metric store are empty, no request has arrived.
InitServer ==
    /\ endpoints = [e \in EndpointIds |->
                      [ID |-> e, ActiveDeployID |-> Nil,
                       Environment |-> [k \in {"FOO"} |-> "BAR"]]]
    /\ deploys = [d \in DeployIds |->
                    [ID |-> d, EndpointID |-> DeployEndpoint(d), Blob |-> DeployBlob(d)]]
    /\ InitRuntime

Init == InitServer /\ call = NoCall

\* ---------------------------------------------------------- control plane

\* Publish (or roll back to) deployment d: the active pointer of the
\* endpoint that owns d is set to d.
Publish(d) ==
    /\ d \in DOMAIN deploys
    /\ deploys[d].EndpointID \in DOMAIN endpoints
    /\ endpoints[deploys[d].EndpointID].ActiveDeployID # d
    /\ endpoints' = [endpoints EXCEPT ![deploys[d].EndpointID].ActiveDeployID = d]
    /\ UNCHANGED <<deploys, cache, compiled, metrics, worker, net, responses, httpReplies, lastPut, call>>

\* The module cache drops the entry of endpoint e.
Evict(e) ==
    /\ e \in DOMAIN cache
    /\ cache[e] # NoCache
    /\ cache' = [cache EXCEPT ![e] = NoCache]
    /\ UNCHANGED <<endpoints, deploys, compiled, metrics, worker, net, responses, httpReplies, lastPut, call>>

\* ---------------------------------------------------------------- ingress

\* Request r has arrived once it was answered 404 or dispatched.
Arrived(r) == worker[r].pc # "none" \/ httpReplies[r] # <<>>

\* An HTTP request r for /live/{e}/... arrives.  The ingress resolves the
\* endpoint and its active deployment (404 when either is missing), mints
\* the request id, builds the wire request, registers the waiter and sends
\* the wire request to a freshly activated runtime actor.
HandleRequest(r, e) ==
    /\ ~Arrived(r)
    /\ IF e \in DOMAIN endpoints /\ endpoints[e].ActiveDeployID # Nil
       THEN /\ responses' = responses \cup {r}
            /\ worker' = [worker EXCEPT ![r] =
                            [IdleWorker EXCEPT
                               !.pc = "idle",
                               !.msg = [ID |-> r, EndpointID |-> e, URL |-> RequestURL(r)]]]
            /\ UNCHANGED httpReplies
       ELSE /\ httpReplies' = [httpReplies EXCEPT ![r] = <<[status |-> 404, body |-> <<>>]>>]
            /\ UNCHANGED <<responses, worker>>
    /\ UNCHANGED <<endpoints, deploys, cache, compiled, metrics, net, lastPut, call>>

\* The deadline of request r expires: the ingress abandons the wait and
\* replies 504.
Timeout(r) ==
    /\ r \in responses
    /\ responses' = responses \ {r}
    /\ httpReplies' = [httpReplies EXCEPT ![r] = Append(@, [status |-> 504, body |-> <<>>])]
    /\ UNCHANGED <<endpoints, deploys, cache, compiled, metrics, worker, net, lastPut, call>>

\* A wire response reaches the ingress: it is handed to the handler waiting
\* for its request id, which writes the HTTP reply; a response nobody waits
\* for is dropped.
DeliverResponse(m) ==
    /\ m \in net
    /\ net' = net \ {m}
    /\ IF m.RequestID \in responses
       THEN /\ responses' = responses \ {m.RequestID}
            /\ httpReplies' = [httpReplies EXCEPT ![m.RequestID] =
                                 Append(@, [status |-> m.StatusCode, body |-> m.Response])]
       ELSE UNCHANGED <<responses, httpReplies>>
    /\ UNCHANGED <<endpoints, deploys, cache, compiled, metrics, worker, lastPut, call>>

\* --------------------------------------------------------- runtime worker

\* A response that, its own request being no longer awaited, is tagged with
\* the id of a request that still is.
MakeResponseToAWaiter(msg, responseBytes) ==
    [Response |-> responseBytes,
     RequestID |-> IF msg.ID \in responses \/ responses = {}
                   THEN msg.ID
                   ELSE CHOOSE x \in responses : TRUE,
     StatusCode |-> 200]

\* A response that reports 500 when the guest left no body.
MakeResponseStrict(msg, responseBytes) ==
    [Response |-> responseBytes, RequestID |-> msg.ID,
     StatusCode |-> IF responseBytes = <<>> THEN 500 ELSE 200]

\* A response tagged with the endpoint id instead of the request id.
MakeResponseWrongId(msg, responseBytes) ==
    [Response |-> responseBytes, RequestID |-> msg.EndpointID, StatusCode |-> 200]

\* The wire response Receive builds after exec returns.
MakeResponse(msg, responseBytes) ==
    [Response |-> responseBytes, RequestID |-> msg.ID, StatusCode |-> 200]

\* A metric that reads the endpoint's active pointer again when it is built.
MakeMetricRereadsActive(r, deploy, msg) ==
    [ID |-> r, DeployID |-> endpoints[deploy.EndpointID].ActiveDeployID,
     EndpointID |-> deploy.EndpointID, RequestURL |-> msg.URL]

\* The runtime metric Receive builds (uuid.New is the worker's own id here;
\* StartTime and Duration are wall-clock values and are left out).
MakeMetric(r, deploy, msg) ==
    [ID |-> r, DeployID |-> deploy.ID, EndpointID |-> deploy.EndpointID,
     RequestURL |-> msg.URL]

\* One process-wide compilation cache handed to every worker that misses.
NewCompilationCacheShared(r) == "r1"

\* wazero.NewCompilationCache: a fresh, empty cache owned by worker r.
NewCompilationCache(r) == r

\* A module cache keyed by the deployment.
CacheKeyByDeploy(endpoint, deploy) == deploy.ID

\* The key Receive uses for the module cache, on Get and on Put.
CacheKey(endpoint, deploy) == endpoint.ID

\* Receive(*proto.HTTPRequest), first step: the endpoint lookup.  storeErr
\* is the store failing on its own; the handler returns on any error.
ReceiveGetEndpoint(r, storeErr) ==
    /\ worker[r].pc = "idle"
    /\ LET res == StoreGetEndpoint(worker[r].msg.EndpointID)
       IN  IF storeErr \/ ~res.ok
           THEN worker' = [worker EXCEPT ![r].pc = "returned",
                                          ![r].result = "endpointNotFound"]
           ELSE worker' = [worker EXCEPT ![r].pc = "getDeploy", ![r].endpoint = res.val]
    /\ UNCHANGED <<endpoints, deploys, cache, compiled, metrics, net, responses, httpReplies, lastPut, call>>

\* A deployment lookup whose error branch lacks the return.
ReceiveGetDeployNoReturn(r, storeErr) ==
    /\ worker[r].pc = "getDeploy"
    /\ LET res == StoreGetDeploy(worker[r].endpoint.ActiveDeployID)
       IN  IF storeErr \/ ~res.ok
           THEN worker' = [worker EXCEPT ![r].pc = "cacheGet",
                                          ![r].result = "deployNotFound"]
           ELSE worker' = [worker EXCEPT ![r].pc = "cacheGet", ![r].deploy = res.val]
    /\ UNCHANGED <<endpoints, deploys, cache, compiled, metrics, net, responses, httpReplies, lastPut, call>>

\* The lookup of the endpoint's active deployment.
ReceiveGetDeploy(r, storeErr) ==
    /\ worker[r].pc = "getDeploy"
    /\ LET res == StoreGetDeploy(worker[r].endpoint.ActiveDeployID)
       IN  IF storeErr \/ ~res.ok
           THEN worker' = [worker EXCEPT ![r].pc = "returned",
                                          ![r].result = "deployNotFound"]
           ELSE worker' = [worker EXCEPT ![r].pc = "cacheGet", ![r].deploy = res.val]
    /\ UNCHANGED <<endpoints, deploys, cache, compiled, metrics, net, responses, httpReplies, lastPut, call>>

\* A worker that makes a new compilation cache whatever the lookup gave.
ReceiveCacheGetAlwaysFresh(r) ==
    /\ worker[r].pc = "cacheGet"
    /\ worker' = [worker EXCEPT
                    ![r].pc = "exec",
                    ![r].requestBytes = NewRequestModule(worker[r].msg).requestBytes,
                    ![r].hit = CacheGet(CacheKey(worker[r].endpoint, worker[r].deploy)).ok,
                    ![r].modcache = NewCompilationCache(r)]
    /\ UNCHANGED <<endpoints, deploys, cache, compiled, metrics, net, responses, httpReplies, lastPut, call>>

\* NewRequestModule and the module cache lookup; a miss makes a new
\* compilation cache.
ReceiveCacheGet(r) ==
    /\ worker[r].pc = "cacheGet"
    /\ LET w == worker[r]
           got == CacheGet(CacheKey(w.endpoint, w.deploy))
       IN  worker' = [worker EXCEPT
                        ![r].pc = "exec",
                        ![r].requestBytes = NewRequestModule(w.msg).requestBytes,
                        ![r].hit = got.ok,
                        ![r].modcache = IF got.ok THEN got.val ELSE NewCompilationCache(r)]
    /\ UNCHANGED <<endpoints, deploys, cache, compiled, metrics, net, responses, httpReplies, lastPut, call>>

\* A handler that returns when exec did not run the guest to its end.
ReceiveExecReturnsOnFailure(r, wasiFails, k) ==
    /\ worker[r].pc = "exec"
    /\ LET w == worker[r] IN
       /\ k \in 0..Len(BlobOps(w.deploy.Blob))
       /\ LET out == exec(w.deploy.Blob, w.endpoint.Environment, NewRequestModule(w.msg),
                           wasiFails, k)
          IN  worker' = [worker EXCEPT
                           ![r].pc = IF out.result = "ok" THEN "respond" ELSE "returned",
                           ![r].responseBytes = out.responseBytes,
                           ![r].result = out.result,
                           ![r].execs = @ + 1]
    /\ UNCHANGED <<endpoints, deploys, cache, compiled, metrics, net, responses, httpReplies, lastPut, call>>

\* r.exec(...): compiling records the blob in the compilation cache in use.
ReceiveExec(r, wasiFails, k) ==
    /\ worker[r].pc = "exec"
    /\ LET w == worker[r] IN
       /\ k \in 0..Len(BlobOps(w.deploy.Blob))
       /\ LET out == exec(w.deploy.Blob, w.endpoint.Environment, NewRequestModule(w.msg),
                           wasiFails, k)
          IN  /\ worker' = [worker EXCEPT
                              ![r].pc = "respond",
                              ![r].responseBytes = out.responseBytes,
                              ![r].result = out.result,
                              ![r].ranBlob = w.deploy.Blob,
                              ![r].writes = out.writes,
                              ![r].guestEnv = out.guestEnv,
                              ![r].closed = out.closed,
                              ![r].runtimeClosed = out.runtimeClosed,
                              ![r].systemOpened = out.systemOpened,
                              ![r].systemClosed = out.systemClosed,
                              ![r].execs = @ + 1]
              /\ compiled' = IF out.didCompile
                             THEN [compiled EXCEPT ![w.modcache] = @ \cup {w.deploy.Blob}]
                             ELSE compiled
    /\ UNCHANGED <<endpoints, deploys, cache, metrics, net, responses, httpReplies, lastPut, call>>

\* c.Respond(resp) and c.Engine().Poison(c.PID()): the response goes to the
\* sender, the poison pill is queued behind the message being handled.
ReceiveRespond(r) ==
    /\ worker[r].pc = "respond"
    /\ LET resp == MakeResponse(worker[r].msg, worker[r].responseBytes)
       IN  /\ net' = net \cup {resp}
           /\ worker' = [worker EXCEPT
                           ![r].pc = "metric",
                           ![r].sent = Append(@, resp),
                           ![r].poisoned = TRUE]
    /\ UNCHANGED <<endpoints, deploys, cache, compiled, metrics, responses, httpReplies, lastPut, call>>

\* metricStore.CreateRuntimeMetric(&metric).
ReceiveMetric(r) ==
    /\ worker[r].pc = "metric"
    /\ metrics' = metrics \cup {MakeMetric(r, worker[r].deploy, worker[r].msg)}
    /\ worker' = [worker EXCEPT ![r].pc = "cachePut"]
    /\ UNCHANGED <<endpoints, deploys, cache, compiled, net, responses, httpReplies, lastPut, call>>

\* r.cache.Put(endpoint.ID, modcache), after which Receive returns.
ReceiveCachePut(r) ==
    /\ worker[r].pc = "cachePut"
    /\ cache' = CachePut(CacheKey(worker[r].endpoint, worker[r].deploy), worker[r].modcache)
    /\ lastPut' = [lastPut EXCEPT
                      ![CacheKey(worker[r].endpoint, worker[r].deploy)] = worker[r].modcache]
    /\ worker' = [worker EXCEPT ![r].pc = "returned", ![r].puts = @ + 1]
    /\ UNCHANGED <<endpoints, deploys, compiled, metrics, net, responses, httpReplies, call>>

\* An engine that stops the actor as soon as it is poisoned, whatever its
\* handler is doing.
StoppedAtOnce(r) ==
    /\ worker[r].pc \in {"metric", "cachePut", "returned"}
    /\ worker[r].poisoned
    /\ worker' = [worker EXCEPT ![r].pc = "terminated"]
    /\ UNCHANGED <<endpoints, deploys, cache, compiled, metrics, net, responses, httpReplies, lastPut, call>>

\* The engine takes the poison pill from the inbox once Receive has
\* returned and stops the actor (actor.Stopped).
Stopped(r) ==
    /\ worker[r].pc = "returned"
    /\ worker[r].poisoned
    /\ worker' = [worker EXCEPT ![r].pc = "terminated"]
    /\ UNCHANGED <<endpoints, deploys, cache, compiled, metrics, net, responses, httpReplies, lastPut, call>>

\* ---------------------------------------------------------- specification

Next ==
    \/ \E d \in DeployIds : Publish(d)
    \/ \E e \in UUIDs : Evict(e)
    \/ \E r \in Requests, e \in EndpointIds \cup {"e0"} : HandleRequest(r, e)
    \/ \E r \in Requests : Timeout(r)
    \/ \E m \in net : DeliverResponse(m)
    \/ \E r \in Requests, storeErr \in BOOLEAN : ReceiveGetEndpoint(r, storeErr)
    \/ \E r \in Requests, storeErr \in BOOLEAN : ReceiveGetDeploy(r, storeErr)
    \/ \E r \in Requests : ReceiveCacheGet(r)
    \/ \E r \in Requests, wasiFails \in BOOLEAN, k \in 0..2 : ReceiveExec(r, wasiFails, k)
    \/ \E r \in Requests : ReceiveRespond(r)
    \/ \E r \in Requests : ReceiveMetric(r)
    \/ \E r \in Requests : ReceiveCachePut(r)
    \/ \E r \in Requests : Stopped(r)

Spec == Init /\ [][Next]_vars

\* Every step of the runtime actor of r: the actor engine runs a handler
\* that was started to its end and then takes the next message (the poison
\* pill) from the inbox.
WorkerStep(r) ==
    \/ \E storeErr \in BOOLEAN : ReceiveGetEndpoint(r, storeErr)
    \/ \E storeErr \in BOOLEAN : ReceiveGetDeploy(r, storeErr)
    \/ ReceiveCacheGet(r)
    \/ \E wasiFails \in BOOLEAN, k \in 0..2 : ReceiveExec(r, wasiFails, k)
    \/ ReceiveRespond(r)
    \/ ReceiveMetric(r)
    \/ ReceiveCachePut(r)
    \/ Stopped(r)

\* The system without cache eviction, requests being for endpoints the
\* store holds.
NextLive ==
    \/ \E d \in DeployIds : Publish(d)
    \/ \E r \in Requests, e \in EndpointIds : HandleRequest(r, e)
    \/ \E r \in Requests : Timeout(r)
    \/ \E m \in net : DeliverResponse(m)
    \/ \E r \in Requests : WorkerStep(r)

\* That system with the engine's scheduling stated: no actor that can take
\* a step is left waiting forever (a guest that runs stops).
FairSpec == Init /\ [][NextLive]_vars /\ \A r \in Requests : WF_vars(WorkerStep(r))

\* The module-cache specification: one more request, every request for
\* endpoint e1, nothing is evicted, the ingress keeps waiting (no deadline
\* expires and no response is delivered), and the store does not fail on
\* its own.
NextCache ==
    \/ \E d \in {"d1", "d2"} : Publish(d)
    \/ \E r \in CacheRequests : HandleRequest(r, "e1")
    \/ \E r \in CacheRequests : ReceiveGetEndpoint(r, FALSE)
    \/ \E r \in CacheRequests : ReceiveGetDeploy(r, FALSE)
    \/ \E r \in CacheRequests : ReceiveCacheGet(r)
    \/ \E r \in CacheRequests, wasiFails \in BOOLEAN, k \in 0..2 : ReceiveExec(r, wasiFails, k)
    \/ \E r \in CacheRequests : ReceiveRespond(r)
    \/ \E r \in CacheRequests : ReceiveMetric(r)
    \/ \E r \in CacheRequests : ReceiveCachePut(r)
    \/ \E r \in CacheRequests : Stopped(r)

SpecCache == Init /\ [][NextCache]_vars

\* ------------------------------------------------- control plane REST API

\* The variables the control plane leaves alone.
runtimeVars == <<cache, compiled, metrics, worker, net, responses, httpReplies, lastPut>>

\* The clients that publish concurrently.
Callers == {"c1", "c2"}

\* Ids a client may name that the store does not hold.
UnknownEndpoint == "e0"
UnknownDeploy == "d0"

\* The environment an endpoint is created with.
SeedEnvironment == [k \in {"FOO"} |-> "BAR"]

\* Address of the wasm server the published URL is made of.
WasmServerAddr == "0.0.0.0:80"

\* The URL a publish reports for endpoint e.
PublishURL(e) == "http://" \o WasmServerAddr \o "/live/" \o e

\* The control plane as a recorded call: the last request it answered, and
\* for each client the deployment its publish has resolved and not yet
\* written to the endpoint.
ApiIdle == [fn |-> "api",
            last |-> [op |-> "none"],
            pending |-> [c \in Callers |-> Nil]]

\* POST /endpoint: a new endpoint with the given environment and no active
\* deployment.
ApiCreateEndpoint(e, env) ==
    /\ call.fn = "api"
    /\ e \notin DOMAIN endpoints
    /\ endpoints' = [x \in DOMAIN endpoints \cup {e} |->
                        IF x = e
                        THEN [ID |-> e, ActiveDeployID |-> Nil, Environment |-> env]
                        ELSE endpoints[x]]
    /\ call' = [call EXCEPT !.last = [op |-> "createEndpoint", ok |-> TRUE,
                                      endpoint |-> e, env |-> env]]
    /\ UNCHANGED <<deploys, runtimeVars>>

\* An upload that also makes the new deployment the active one.
ApiCreateDeployActivates(d, e) ==
    /\ call.fn = "api"
    /\ d \notin DOMAIN deploys
    /\ e \in DOMAIN endpoints
    /\ deploys' = [x \in DOMAIN deploys \cup {d} |->
                      IF x = d
                      THEN [ID |-> d, EndpointID |-> e, Blob |-> DeployBlob(d)]
                      ELSE deploys[x]]
    /\ endpoints' = [endpoints EXCEPT ![e].ActiveDeployID = d]
    /\ call' = [call EXCEPT !.last = [op |-> "createDeploy", ok |-> TRUE,
                                      endpoint |-> e, deploy |-> d]]
    /\ UNCHANGED runtimeVars

\* POST /endpoint/{e}/deployment: a new deployment owned by e (404 when e
\* is unknown); the endpoint is left as it is.
ApiCreateDeploy(d, e) ==
    /\ call.fn = "api"
    /\ d \notin DOMAIN deploys
    /\ IF e \in DOMAIN endpoints
       THEN /\ deploys' = [x \in DOMAIN deploys \cup {d} |->
                             IF x = d
                             THEN [ID |-> d, EndpointID |-> e, Blob |-> DeployBlob(d)]
                             ELSE deploys[x]]
            /\ call' = [call EXCEPT !.last = [op |-> "createDeploy", ok |-> TRUE,
                                              endpoint |-> e, deploy |-> d]]
       ELSE /\ UNCHANGED deploys
            /\ call' = [call EXCEPT !.last = [op |-> "createDeploy", ok |-> FALSE,
                                              endpoint |-> e, deploy |-> d]]
    /\ UNCHANGED <<endpoints, runtimeVars>>

\* POST /publish, first half: client c names deployment d and the handler
\* looks it up (404 when it is unknown).
ApiPublishResolve(c, d) ==
    /\ call.fn = "api"
    /\ call.pending[c] = Nil
    /\ IF d \in DOMAIN deploys
       THEN call' = [call EXCEPT !.pending[c] = d]
       ELSE call' = [call EXCEPT !.last = [op |-> "publish", ok |-> FALSE, deploy |-> d]]
    /\ UNCHANGED <<endpoints, deploys, runtimeVars>>

\* A publish that writes the pointer only while the endpoint has none.
ApiPublishCommitFirstWins(c) ==
    /\ call.fn = "api"
    /\ call.pending[c] # Nil
    /\ LET d == call.pending[c]
           e == deploys[d].EndpointID
       IN  /\ endpoints' = IF endpoints[e].ActiveDeployID = Nil
                           THEN [endpoints EXCEPT ![e].ActiveDeployID = d]
                           ELSE endpoints
           /\ call' = [call EXCEPT
                         !.pending[c] = Nil,
                         !.last = [op |-> "publish", ok |-> TRUE, deploy |-> d,
                                   out |-> [DeploymentID |-> d, URL |-> PublishURL(e)]]]
    /\ UNCHANGED <<deploys, runtimeVars>>

\* POST /publish, second half: the store sets the active pointer of the
\* owning endpoint in one write, and the handler reports the deployment id
\* and the URL.
ApiPublishCommit(c) ==
    /\ call.fn = "api"
    /\ call.pending[c] # Nil
    /\ LET d == call.pending[c]
           e == deploys[d].EndpointID
       IN  /\ endpoints' = [endpoints EXCEPT ![e].ActiveDeployID = d]
           /\ call' = [call EXCEPT
                         !.pending[c] = Nil,
                         !.last = [op |-> "publish", ok |-> TRUE, deploy |-> d,
                                   out |-> [DeploymentID |-> d, URL |-> PublishURL(e)]]]
    /\ UNCHANGED <<deploys, runtimeVars>>

\* A rollback that takes the deployment as it is named.
ApiRollbackUnchecked(e, d) ==
    /\ call.fn = "api"
    /\ e \in DOMAIN endpoints
    /\ endpoints' = [endpoints EXCEPT ![e].ActiveDeployID = d]
    /\ call' = [call EXCEPT !.last = [op |-> "rollback", ok |-> TRUE,
                                      endpoint |-> e, deploy |-> d]]
    /\ UNCHANGED <<deploys, runtimeVars>>

\* endpoint rollback <endpointID> <deployID>: the publish operation against
\* a prior deployment of the endpoint; refused when the endpoint or the
\* deployment is unknown or the deployment belongs to another endpoint.
ApiRollback(e, d) ==
    /\ call.fn = "api"
    /\ IF e \in DOMAIN endpoints /\ d \in DOMAIN deploys /\ deploys[d].EndpointID = e
       THEN /\ endpoints' = [endpoints EXCEPT ![e].ActiveDeployID = d]
            /\ call' = [call EXCEPT !.last = [op |-> "rollback", ok |-> TRUE,
                                              endpoint |-> e, deploy |-> d]]
       ELSE /\ UNCHANGED endpoints
            /\ call' = [call EXCEPT !.last = [op |-> "rollback", ok |-> FALSE,
                                              endpoint |-> e, deploy |-> d]]
    /\ UNCHANGED <<deploys, runtimeVars>>

\* The environments the tests update an endpoint with.
EnvUpdates == {("A" :> "B") @@ ("C" :> "D"), ("FOO" :> "BAZ")}

\* An update that puts the given map in the place of the old one.
MergeEnvReplaces(old, U) == U

\* The environment after an update with U: U's entries, and the old entries
\* under the keys U does not have.
MergeEnv(old, U) ==
    [k \in DOMAIN old \cup DOMAIN U |-> IF k \in DOMAIN U THEN U[k] ELSE old[k]]

\* PUT /endpoint/{e}: the environment of e is updated with U (404 when e
\* is unknown).
ApiUpdateEndpoint(e, U) ==
    /\ call.fn = "api"
    /\ IF e \in DOMAIN endpoints
       THEN /\ endpoints' = [endpoints EXCEPT
                               ![e].Environment = MergeEnv(endpoints[e].Environment, U)]
            /\ call' = [call EXCEPT !.last = [op |-> "updateEndpoint", ok |-> TRUE,
                                              endpoint |-> e, env |-> U]]
       ELSE /\ UNCHANGED endpoints
            /\ call' = [call EXCEPT !.last = [op |-> "updateEndpoint", ok |-> FALSE,
                                              endpoint |-> e, env |-> U]]
    /\ UNCHANGED <<deploys, runtimeVars>>

\* The wasm server with the control plane updating the environment of the
\* endpoint the requests are for.
InitEnv == InitServer /\ call = ApiIdle

NextEnv ==
    \/ Publish("d1")
    \/ \E e \in {"e1", UnknownEndpoint}, U \in EnvUpdates : ApiUpdateEndpoint(e, U)
    \/ \E r \in Requests : HandleRequest(r, "e1")
    \/ \E r \in Requests : ReceiveGetEndpoint(r, FALSE)
    \/ \E r \in Requests : ReceiveGetDeploy(r, FALSE)
    \/ \E r \in Requests : ReceiveCacheGet(r)
    \/ \E r \in Requests, wasiFails \in BOOLEAN, k \in 0..2 : ReceiveExec(r, wasiFails, k)
    \/ \E r \in Requests : ReceiveRespond(r)
    \/ \E r \in Requests : ReceiveMetric(r)
    \/ \E r \in Requests : ReceiveCachePut(r)
    \/ \E r \in Requests : Stopped(r)

SpecEnv == InitEnv /\ [][NextEnv]_vars

\* The control plane on an empty store.
InitApi ==
    /\ endpoints = [e \in {} |-> NoEndpoint]
    /\ deploys = [d \in {} |-> NoDeploy]
    /\ InitRuntime
    /\ call = ApiIdle

NextApi ==
    \/ \E e \in EndpointIds : ApiCreateEndpoint(e, SeedEnvironment)
    \/ \E d \in DeployIds, e \in EndpointIds \cup {UnknownEndpoint} : ApiCreateDeploy(d, e)
    \/ \E c \in Callers, d \in DeployIds \cup {UnknownDeploy} : ApiPublishResolve(c, d)
    \/ \E c \in Callers : ApiPublishCommit(c)
    \/ \E e \in EndpointIds \cup {UnknownEndpoint}, d \in DeployIds \cup {UnknownDeploy} :
          ApiRollback(e, d)

SpecApi == InitApi /\ [][NextApi]_vars

\* ------------------------------------------------------- host ABI, alone

\* Length of the guest programs that are run against the host ABI.
MaxOps == 3

\* The instructions such a program is made of: host calls at the start and
\* at the end of the linear memory (in range and out of range), and stores
\* of the guest into its own memory.
GuestOps ==
    {[op |-> "write_request", offset |-> o] : o \in {0, MemSize - 1}}
    \cup {[op |-> "write_response", offset |-> o, size |-> n] :
              o \in {0, MemSize - 1}, n \in 1..2}
    \cup {[op |-> "store", offset |-> o, byte |-> "x"] : o \in {0, MemSize - 1}}

GuestPrograms == UNION {[1..n -> GuestOps] : n \in 0..MaxOps}

\* The wire request the guest under test is started for.
GuestMsg == [ID |-> "r1", EndpointID |-> "e1", URL |-> RequestURL("r1")]

\* The guest as InstantiateModule starts it: its data segment in memory and
\* the request module of its request bound as module env.
StartGuest(msg) ==
    [mem |-> BlobData("hello"), httpmod |-> NewRequestModule(msg), writes |-> 0]

\* The position in a program of its last write_response call (0: none).
LastWriteResponse(ops) ==
    LET calls == {i \in 1..Len(ops) : ops[i].op = "write_response"}
    IN  IF calls = {} THEN 0 ELSE CHOOSE i \in calls : \A j \in calls : j <= i

\* The bytes Memory.Read yields to the k-th instruction of a program, when
\* that instruction is a write_response call (nothing when k is 0).
BytesReadAt(msg, ops, k) ==
    LET g == RunGuest(StartGuest(msg), ops, k)
    IN  ViewBytes(g.mem, g.httpmod.responseBytes)

\* A guest runs the program to its end; Receive then takes the response
\* body from httpmod.responseBytes.
RunProgram ==
    /\ call.fn = "guest"
    /\ ~call.done
    /\ LET g == RunGuest(StartGuest(GuestMsg), call.in, Len(call.in))
       IN  call' = [call EXCEPT
                      !.done = TRUE,
                      !.out = [responseBytes |-> ViewBytes(g.mem, g.httpmod.responseBytes),
                               writes |-> g.writes]]
    /\ UNCHANGED serverVars

InitABI ==
    /\ InitServer
    /\ call \in {[fn |-> "guest", in |-> p, done |-> FALSE,
                   out |-> [responseBytes |-> <<>>, writes |-> 0]] : p \in GuestPrograms}

NextABI == RunProgram

SpecABI == InitABI /\ [][NextABI]_vars

\* ------------------------------------------------ package shared, helpers

\* Length of the URL paths the path helper is applied to.
MaxPathLen == 6

\* The characters of those paths.
PathChars == {"/", "a", "b"}

Paths == UNION {[1..n -> PathChars] : n \in 0..MaxPathLen}

\* strings.TrimPrefix(s, "/").
TrimPrefix(s) == IF Len(s) >= 1 /\ s[1] = "/" THEN Tail(s) ELSE s

\* strings.Split(s, "/"): the parts between the separators; one part more
\* than there are separators, so never an empty slice.
RECURSIVE Split(_)
Split(s) ==
    LET seps == {i \in 1..Len(s) : s[i] = "/"}
    IN  IF seps = {}
        THEN <<s>>
        ELSE LET i == CHOOSE x \in seps : \A y \in seps : x <= y
             IN  <<SubSeq(s, 1, i - 1)>> \o Split(SubSeq(s, i + 1, Len(s)))

\* strings.Join(parts, "/").
RECURSIVE Join(_)
Join(parts) ==
    IF Len(parts) = 0 THEN <<>>
    ELSE IF Len(parts) = 1 THEN parts[1]
    ELSE parts[1] \o <<"/">> \o Join(Tail(parts))

\* trimmedEndpointFromURL: the slice expression pathParts[2:] panics when
\* the slice has fewer than two elements.
trimmedEndpointFromURL(path) ==
    LET pathParts == Split(TrimPrefix(path))
    IN  IF Len(pathParts) = 0
        THEN [panic |-> FALSE, val |-> <<"/">>]
        ELSE IF Len(pathParts) < 2
        THEN [panic |-> TRUE, val |-> <<>>]
        ELSE [panic |-> FALSE,
              val |-> <<"/">> \o Join(SubSeq(pathParts, 3, Len(pathParts)))]

\* MakeProtoRequest computes the URL of the wire request of an HTTP request
\* with the recorded path.
CallTrimmedEndpointFromURL ==
    /\ call.fn = "trimmedEndpointFromURL"
    /\ ~call.done
    /\ call' = [call EXCEPT !.done = TRUE, !.out = trimmedEndpointFromURL(call.in)]
    /\ UNCHANGED serverVars

InitTrim ==
    /\ InitServer
    /\ call \in {[fn |-> "trimmedEndpointFromURL", in |-> p, done |-> FALSE,
                  out |-> [panic |-> FALSE, val |-> <<>>]] : p \in Paths}

NextTrim == CallTrimmedEndpointFromURL

SpecTrim == InitTrim /\ [][NextTrim]_vars

\* Length of the guest outputs ParseStdout is applied to.
MaxStdoutLen == 10

\* The byte values of those outputs.
StdoutBytes == {0, 1, 2}

Stdouts == UNION {[1..n -> StdoutBytes] : n \in 0..MaxStdoutLen}

\* Length of the trailer: status and response length, four bytes each.
magicLen == 8

\* A decoder that takes the first byte as the most significant one.
BigEndianUint32(b) ==
    b[4] + 256 * b[3] + 65536 * b[2] + 16777216 * b[1]

\* binary.LittleEndian.Uint32 of a four-byte slice (four bytes never make
\* a value of more than 32 bits, so nothing is cut off).
LittleEndianUint32(b) ==
    b[1] + 256 * b[2] + 65536 * b[3] + 16777216 * b[4]

\* ParseStdout of the bytes read from the guest's stdout (int has 64 bits
\* in the builds of the Makefile, so int(respLen) is respLen).  The named
\* results keep what was assigned when an error is returned.
ParseStdout(stdoutb) ==
    LET outLen == Len(stdoutb)
        magicStart == outLen - magicLen
        status == LittleEndianUint32(SubSeq(stdoutb, magicStart + 1, magicStart + 4))
        respLen == LittleEndianUint32(SubSeq(stdoutb, magicStart + 5, outLen))
        respStart == outLen - magicLen - respLen
    IN  IF outLen < magicLen
        THEN [err |-> TRUE, logs |-> <<>>, resp |-> <<>>, status |-> 0]
        ELSE IF respLen > outLen - magicLen
        THEN [err |-> TRUE, logs |-> <<>>, resp |-> <<>>, status |-> status]
        ELSE [err |-> FALSE,
              logs |-> SubSeq(stdoutb, 1, respStart),
              resp |-> SubSeq(stdoutb, respStart + 1, respStart + respLen),
              status |-> status]

\* The host parses the output of a guest.
CallParseStdout ==
    /\ call.fn = "ParseStdout"
    /\ ~call.done
    /\ call' = [call EXCEPT !.done = TRUE, !.out = ParseStdout(call.in)]
    /\ UNCHANGED serverVars

InitStdout ==
    /\ InitServer
    /\ call \in {[fn |-> "ParseStdout", in |-> b, done |-> FALSE,
                  out |-> [err |-> FALSE, logs |-> <<>>, resp |-> <<>>, status |-> 0]] :
                    b \in Stdouts}

NextStdout == CallParseStdout

SpecStdout == InitStdout /\ [][NextStdout]_vars

\* Length of the response text before the trailer in the strings
\* ParseRuntimeHTTPResponse is applied to.
MaxBodyLen == 2

\* Length of the trailer: sixteen hex digits, status and response length.
TrailerLen == 16

\* The characters of a response text, none of them a digit of the trailer.
BodyChars == {"x", "y"}

\* The characters of a trailer: three hex digits and a character that is
\* not one.
TrailerChars == {"0", "1", "2", "g"}

\* The positions of a trailer that vary: both digits of the low byte of the
\* status, both digits of the low byte of the length, and the last digit.
FreePositions == {1, 2, 9, 10, 16}

Bodies == UNION {[1..n -> BodyChars] : n \in 0..MaxBodyLen}

Trailers ==
    {[i \in 1..TrailerLen |-> IF i \in FreePositions THEN f[i] ELSE "0"] :
        f \in [FreePositions -> TrailerChars]}

\* Strings with a whole trailer, and strings cut short of one.
HttpInputs ==
    {body \o t : body \in Bodies, t \in Trailers}
        \cup {SubSeq(t, 1, n) : t \in Trailers, n \in 0..(TrailerLen - 1)}

\* The byte of a character in a Go string.
ByteOf(c) ==
    CASE c = "0" -> 48
      [] c = "1" -> 49
      [] c = "2" -> 50
      [] c = "g" -> 103
      [] c = "x" -> 120
      [] c = "y" -> 121

\* The value of a hex digit as encoding/hex looks it up, 255 for a
\* character that is not one.
fromHexChar(c) ==
    CASE c = "0" -> 0
      [] c = "1" -> 1
      [] c = "2" -> 2
      [] OTHER -> 255

\* hex.DecodeString(s): the bytes decoded before the first character that
\* is not a hex digit, and whether there was one.  The slice returned has
\* the length n of what was decoded and the capacity of the array it was
\* decoded into, which the releases of the library allocate differently:
\* "source" decodes in place over the bytes of s, so the bytes past n are
\* still the characters of s; "fresh" decodes into a zeroed array of half
\* the length.
DecodeString(s, array) ==
    LET pairs == Len(s) \div 2
        ValidPair(j) == /\ fromHexChar(s[2 * j - 1]) <= 15
                        /\ fromHexChar(s[2 * j]) <= 15
        n == Cardinality({i \in 1..pairs : \A j \in 1..i : ValidPair(j)})
        Decoded(j) == 16 * fromHexChar(s[2 * j - 1]) + fromHexChar(s[2 * j])
    IN  [n |-> n,
         err |-> n < pairs \/ Len(s) % 2 = 1,
         backing |-> IF array = "source"
                     THEN [i \in 1..Len(s) |-> IF i <= n THEN Decoded(i) ELSE ByteOf(s[i])]
                     ELSE [i \in 1..pairs |-> IF i <= n THEN Decoded(i) ELSE 0]]

\* The result of a call that panicked: nothing is returned.
HttpPanic == [panic |-> TRUE, err |-> FALSE, resp |-> <<>>, status |-> 0]

\* ParseRuntimeHTTPResponse(in).  After a decode error the function goes
\* on: b[0:4] and b[4:8] reslice b within its capacity, so they read the
\* bytes of the backing array, decoded or not.  A slice expression whose
\* bounds are out of range panics.  int has 64 bits in the builds of the
\* Makefile, so int(respLen) is respLen.
ParseRuntimeHTTPResponse(in, array) ==
    LET n == Len(in)
        d == DecodeString(SubSeq(in, n - TrailerLen + 1, n), array)
        b == d.backing
        status == LittleEndianUint32(SubSeq(b, 1, 4))
        respLen == LittleEndianUint32(SubSeq(b, 5, 8))
    IN  IF n < TrailerLen
        THEN [panic |-> FALSE, err |-> TRUE, resp |-> <<>>, status |-> 0]
        ELSE IF Len(b) < 8
        THEN HttpPanic
        ELSE IF n - TrailerLen - respLen < 0
        THEN HttpPanic
        ELSE [panic |-> FALSE,
              err |-> d.err,
              resp |-> SubSeq(in, n - TrailerLen - respLen + 1, n - TrailerLen),
              status |-> status]

\* A caller parses the text a runtime returned; the library it was built
\* with is one of the two.
CallParseRuntimeHTTPResponse ==
    /\ call.fn = "ParseRuntimeHTTPResponse"
    /\ ~call.done
    /\ \E array \in {"source", "fresh"} :
         call' = [call EXCEPT !.done = TRUE,
                              !.out = ParseRuntimeHTTPResponse(call.in, array)]
    /\ UNCHANGED serverVars

InitHttp ==
    /\ InitServer
    /\ call \in {[fn |-> "ParseRuntimeHTTPResponse", in |-> s, done |-> FALSE,
                  out |-> [panic |-> FALSE, err |-> FALSE, resp |-> <<>>, status |-> 0]] :
                    s \in HttpInputs}

NextHttp == CallParseRuntimeHTTPResponse

SpecHttp == InitHttp /\ [][NextHttp]_vars

\* ------------------------------------------------------ derived predicates

\* The worker of r was spawned and handed its wire request.
Received(r) == worker[r].pc # "none"

\* The worker's handler has returned (Receive is no longer running).
Returned(r) == worker[r].pc \in {"returned", "terminated"}

\* One of the two store lookups of the worker failed.
LookupFailed(r) == worker[r].result \in {"endpointNotFound", "deployNotFound"}

\* Both lookups of the worker succeeded.
Resolved(r) == worker[r].pc \in {"cacheGet", "exec", "respond", "metric", "cachePut"}
               \/ (Returned(r) /\ ~LookupFailed(r))

\* A runtime metric was recorded for the execution of r.
HasMetric(r) == \E m \in metrics : m.ID = r

\* C1: every wire response a worker sends carries the request id of the
\* wire request the worker received, a worker sends at most one response
\* for its request, and no response exists (sent or in flight) whose id is
\* not the id its sender received.
C1_ResponseIdMatches ==
    /\ \A r \in CacheRequests :
          /\ Len(worker[r].sent) <= 1
          /\ (worker[r].sent # <<>> => Received(r))
          /\ \A i \in 1..Len(worker[r].sent) :
                worker[r].sent[i].RequestID = worker[r].msg.ID
    /\ \A m \in net :
          \E r \in CacheRequests :
              /\ Received(r)
              /\ m.RequestID = worker[r].msg.ID
              /\ worker[r].sent = <<m>>

\* Both workers have responded, each with its own request id.
C1_Witness ==
    /\ Len(worker["r1"].sent) = 1 /\ worker["r1"].sent[1].RequestID = "r1"
    /\ Len(worker["r2"].sent) = 1 /\ worker["r2"].sent[1].RequestID = "r2"
    /\ Cardinality(net) = 2

\* C2 (as claimed): whichever step fails, the worker sends a response and
\* emits a metric; so a worker whose handler has returned has done both.
C2_AlwaysRespondsAndEmits ==
    \A r \in Requests :
        Returned(r) => (Len(worker[r].sent) = 1 /\ HasMetric(r))

\* C2 (amended): once both lookups of a worker have succeeded, whichever
\* later step fails (compilation, instantiation, guest execution), the
\* worker eventually sends a response and eventually emits a metric.
C2_ResolvedRespondsAndEmits ==
    \A r \in Requests :
        Resolved(r) ~> (Len(worker[r].sent) = 1 /\ HasMetric(r))

\* A worker whose compilation failed has responded (with an empty body) and
\* its metric is recorded.
C2_Witness ==
    \E r \in Requests :
        /\ worker[r].result = "compileFailed"
        /\ worker[r].sent # <<>>
        /\ worker[r].sent[1].Response = <<>>
        /\ HasMetric(r)

\* C3: when the endpoint lookup or the active-deployment lookup fails, the
\* worker sends no response, never runs the guest, emits no metric and puts
\* nothing into the module cache (no slot ever holds a compilation cache of
\* its own); the only HTTP reply the ingress can give is the 504 of the
\* deadline.
C3_LookupFailureIsSilent ==
    \A r \in Requests :
        LookupFailed(r) =>
            /\ worker[r].pc = "returned"
            /\ worker[r].sent = <<>>
            /\ \A m \in net : m.RequestID # worker[r].msg.ID
            /\ worker[r].execs = 0
            /\ ~HasMetric(r)
            /\ worker[r].puts = 0
            /\ \A u \in UUIDs : cache[u] # NewCompilationCache(r)
                                /\ lastPut[u] # NewCompilationCache(r)
            /\ compiled[NewCompilationCache(r)] = {}
            /\ httpReplies[r] \in {<<>>, <<[status |-> 504, body |-> <<>>]>>}

\* One worker failed its endpoint lookup and its request was answered 504;
\* the other failed its deployment lookup.
C3_Witness ==
    /\ worker["r1"].result = "endpointNotFound"
    /\ httpReplies["r1"] = <<[status |-> 504, body |-> <<>>]>>
    /\ worker["r2"].result = "deployNotFound"

\* C4 (as claimed): the worker is one-shot on every path: once its handler
\* has returned, the worker is terminated or its poison pill is queued, and
\* it has executed at most one request.
C4_OneShotOnEveryPath ==
    \A r \in Requests :
        /\ worker[r].execs <= 1
        /\ Returned(r) => (worker[r].pc = "terminated" \/ worker[r].poisoned)

\* C5: the runtime metric of a request carries the deployment the worker
\* resolved as active at lookup time, which is the deployment whose blob
\* the worker executed, the requested endpoint and the wire request's URL,
\* whatever the endpoint's active pointer is by then.
C5_MetricMatchesResolvedDeploy ==
    \A m \in metrics :
        LET w == worker[m.ID] IN
        /\ m.ID \in Requests
        /\ m.DeployID = w.endpoint.ActiveDeployID
        /\ m.DeployID = w.deploy.ID
        /\ w.ranBlob = deploys[m.DeployID].Blob
        /\ w.execs = 1
        /\ m.EndpointID = w.msg.EndpointID
        /\ m.RequestURL = w.msg.URL
        /\ m.RequestURL = RequestURL(m.ID)

\* A metric was recorded for a deployment that is no longer the active one
\* of its endpoint: the pointer was re-published after the lookup.
C5_Witness ==
    \E m \in metrics :
        /\ m.DeployID = "d1"
        /\ m.EndpointID = "e1"
        /\ endpoints["e1"].ActiveDeployID = "d2"
        /\ worker[m.ID].ranBlob = "echo"

\* C6: every response of a worker whose lookups succeeded has status 200
\* and the response buffer exec left as its body: empty when the guest made
\* no write_response call, as when compilation or WASI instantiation failed
\* or the guest stopped before writing; and such a worker, failure or not,
\* has emitted its metric and written the cache back once it returns.
C6_PermissiveOk ==
    \A r \in Requests :
        /\ \A i \in 1..Len(worker[r].sent) :
              /\ worker[r].sent[i].StatusCode = 200
              /\ worker[r].sent[i].Response = worker[r].responseBytes
              /\ (worker[r].writes = 0 => worker[r].sent[i].Response = <<>>)
        /\ (worker[r].result \in {"compileFailed", "wasiFailed"} => worker[r].writes = 0)
        /\ (worker[r].pc \in {"metric", "cachePut"} \/ (Returned(r) /\ ~LookupFailed(r))
              => Len(worker[r].sent) = 1)
        /\ (Returned(r) /\ ~LookupFailed(r)
              => HasMetric(r) /\ worker[r].puts = 1
                 /\ lastPut[worker[r].msg.EndpointID] # NoCache)

\* A guest stopped before any write_response call: the worker answered 200
\* with an empty body, recorded its metric and wrote the cache back; and a
\* compilation failed with the same outcome.
C6_Witness ==
    /\ worker["r1"].result = "guestFailed"
    /\ worker["r1"].writes = 0
    /\ worker["r1"].sent = <<[Response |-> <<>>, RequestID |-> "r1", StatusCode |-> 200]>>
    /\ HasMetric("r1")
    /\ worker["r1"].puts = 1
    /\ worker["r2"].result = "compileFailed"
    /\ worker["r2"].sent = <<[Response |-> <<>>, RequestID |-> "r2", StatusCode |-> 200]>>
    /\ HasMetric("r2")
    /\ worker["r2"].puts = 1

\* The ingress answered r with 504 and nothing else.
TimedOut(r) == httpReplies[r] = <<[status |-> 504, body |-> <<>>]>>

\* C7 (as claimed): whenever the deadline of a request expired, its worker
\* still completes and its metric is still recorded; so once the worker of
\* a timed-out request has stopped running, its metric exists.
C7_TimedOutWorkerRecordsMetric ==
    \A r \in Requests :
        (TimedOut(r) /\ Returned(r)) => HasMetric(r)

\* C7 (amended): each request gets at most one HTTP reply, and a 200 reply
\* carries the response of the request's own worker; the deadline expiring
\* changes nothing of any worker, of the metrics or of the responses in
\* flight; after a 504 the reply of the request never changes (the late
\* response is dropped); and a worker whose lookups succeeded runs to its
\* termination with its metric recorded although its request timed out.
C7_TimeoutLeavesWorkerRunning ==
    /\ [](\A r \in Requests :
            /\ Len(httpReplies[r]) <= 1
            /\ \A i \in 1..Len(httpReplies[r]) :
                  httpReplies[r][i].status = 200 =>
                      /\ Len(worker[r].sent) = 1
                      /\ httpReplies[r][i].body = worker[r].sent[1].Response
                      /\ worker[r].sent[1].RequestID = r)
    /\ [][\A r \in Requests :
            /\ (~TimedOut(r) /\ TimedOut(r)')
                  => (worker' = worker /\ metrics' = metrics /\ net' = net /\ cache' = cache)
            /\ TimedOut(r) => TimedOut(r)']_vars
    /\ \A r \in Requests :
          (TimedOut(r) /\ Resolved(r)) ~> (worker[r].pc = "terminated" /\ HasMetric(r))

\* The request timed out before its worker had responded; the worker went
\* on, responded, recorded its metric and terminated, and its response was
\* delivered to nobody.
C7_Witness ==
    /\ TimedOut("r1")
    /\ worker["r1"].pc = "terminated"
    /\ Len(worker["r1"].sent) = 1
    /\ HasMetric("r1")
    /\ \A m \in net : m.RequestID # "r1"
    /\ "r1" \notin responses

\* The steps of worker r that read and write the module cache and run exec.
GetStep(r) == worker[r].pc = "cacheGet" /\ worker'[r].pc = "exec"
ExecStep(r) == worker[r].pc = "exec" /\ worker'[r].pc = "respond"
PutStep(r) == worker[r].pc = "cachePut" /\ worker'[r].pc = "returned"

\* Worker r has looked the module cache up and missed.
Missed(r) == worker[r].pc \in {"exec", "respond", "metric", "cachePut", "returned", "terminated"}
             /\ ~LookupFailed(r) /\ ~worker[r].hit

\* C8: workers that miss the module cache for the same endpoint each work
\* on a compilation cache of their own; each that completes has responded
\* with the response of its own guest (its own request id; for the echo
\* guest its own request id as the body); and once they have written back,
\* the slot holds the compilation cache put last, which is one of theirs:
\* never nothing, never anything else.
C8_ConcurrentMissesLastPutWins ==
    /\ \A r1, r2 \in CacheRequests :
          (r1 # r2 /\ Missed(r1) /\ Missed(r2)) =>
              /\ worker[r1].modcache = NewCompilationCache(r1)
              /\ worker[r2].modcache = NewCompilationCache(r2)
              /\ worker[r1].modcache # worker[r2].modcache
    /\ \A r \in CacheRequests :
          (Returned(r) /\ ~LookupFailed(r)) =>
              /\ worker[r].sent = <<[Response |-> worker[r].responseBytes,
                                     RequestID |-> r, StatusCode |-> 200]>>
              /\ (worker[r].ranBlob = "echo" /\ worker[r].result = "ok"
                    => worker[r].responseBytes = <<r>>)
              /\ cache[worker[r].msg.EndpointID] # NoCache
    /\ \A e \in EndpointIds :
          /\ cache[e] = lastPut[e]
          /\ cache[e] # NoCache =>
                \E r \in CacheRequests :
                    /\ worker[r].puts = 1
                    /\ worker[r].msg.EndpointID = e
                    /\ cache[e] = worker[r].modcache

\* r1 and r2 both missed for e1, both completed with their own response,
\* and the slot holds r1's compilation cache although r2 got its own first.
C8_Witness ==
    /\ Missed("r1") /\ Missed("r2")
    /\ worker["r1"].msg.EndpointID = "e1" /\ worker["r2"].msg.EndpointID = "e1"
    /\ worker["r1"].pc = "terminated" /\ worker["r2"].pc = "terminated"
    /\ worker["r1"].sent[1].Response = <<"r1">>
    /\ worker["r2"].sent[1].Response = <<"r2">>
    /\ worker["r3"].pc = "none"
    /\ cache["e1"] = "r1"

\* C9 (as claimed): a hit never replaces the slot's content with a
\* different artifact: the write-back of a worker that had a hit leaves the
\* slot as it was.
C9_HitNeverReplaces ==
    [][\A r \in CacheRequests :
          (PutStep(r) /\ worker[r].hit)
              => cache'[worker[r].msg.EndpointID] = cache[worker[r].msg.EndpointID]]_vars

\* C9 (amended): after a worker whose lookups succeeded has finished a
\* request for endpoint E, the cache holds an artifact under E; absent
\* eviction every request that looks the cache up from then on gets a hit
\* on the slot's artifact, executes with that artifact and writes that same
\* artifact back; the write-back of a hit changes the slot only when the
\* slot then holds the artifact a concurrent miss wrote in between.
C9_CacheLifecycle ==
    /\ [](\A r \in CacheRequests :
            (Returned(r) /\ ~LookupFailed(r)) => cache[worker[r].msg.EndpointID] # NoCache)
    /\ [][\A r \in CacheRequests :
            LET e == worker[r].msg.EndpointID IN
            /\ (GetStep(r) /\ \E r2 \in CacheRequests :
                                  /\ Returned(r2) /\ ~LookupFailed(r2)
                                  /\ worker[r2].msg.EndpointID = e)
                  => (worker'[r].hit /\ worker'[r].modcache = cache[e])
            /\ (ExecStep(r) /\ worker[r].hit)
                  => (/\ worker'[r].modcache = worker[r].modcache
                      /\ \A a \in CacheRequests :
                            a # worker[r].modcache => compiled'[a] = compiled[a])
            /\ (PutStep(r) /\ worker[r].hit)
                  => (/\ cache'[e] = worker[r].modcache
                      /\ worker[r].modcache # NewCompilationCache(r)
                      /\ (cache'[e] # cache[e]
                            => \E r2 \in CacheRequests :
                                  /\ r2 # r /\ Missed(r2) /\ worker[r2].puts = 1
                                  /\ cache[e] = NewCompilationCache(r2)))]_vars

\* A request that came after r1 had finished hit r1's artifact, executed
\* with it and wrote it back.
C9_Witness ==
    /\ worker["r1"].pc = "terminated" /\ Missed("r1")
    /\ worker["r2"].pc = "terminated" /\ worker["r2"].hit
    /\ worker["r2"].modcache = "r1"
    /\ worker["r2"].puts = 1
    /\ cache["e1"] = "r1"

\* C10: the module cache is keyed by the endpoint id alone and a publish
\* leaves it as it is: a step that changes an active pointer changes no
\* slot and no artifact; a lookup hits exactly when the slot of the
\* request's endpoint is filled, whatever deployment is active, and yields
\* that slot's artifact; and exec compiles the blob of the deployment the
\* worker resolved into the artifact it holds.
C10_KeyedByEndpointOnly ==
    [][/\ (endpoints' # endpoints => (cache' = cache /\ compiled' = compiled))
       /\ \A r \in Requests :
            LET e == worker[r].msg.EndpointID IN
            /\ GetStep(r) =>
                  /\ worker'[r].hit = (cache[e] # NoCache)
                  /\ (cache[e] # NoCache => worker'[r].modcache = cache[e])
            /\ ExecStep(r) =>
                  /\ worker'[r].ranBlob = deploys[worker[r].endpoint.ActiveDeployID].Blob
                  /\ (BlobCompiles(worker'[r].ranBlob)
                        => worker'[r].ranBlob \in compiled'[worker[r].modcache])
            /\ PutStep(r) => cache'[e] = worker[r].modcache]_vars

\* r1 ran deployment d1 and wrote its artifact back; after d2 was published
\* r2 hit that artifact and compiled and ran d2's blob in it.
C10_Witness ==
    /\ worker["r1"].deploy.ID = "d1" /\ Missed("r1") /\ Returned("r1")
    /\ worker["r1"].msg.EndpointID = "e1"
    /\ worker["r2"].deploy.ID = "d2" /\ worker["r2"].hit
    /\ worker["r2"].modcache = "r1"
    /\ worker["r2"].ranBlob = "hello"
    /\ worker["r2"].result = "ok"
    /\ compiled["r1"] = {"echo", "hello"}
    /\ endpoints["e1"].ActiveDeployID = "d2"

\* C11 (as claimed): write_response replaces the response buffer on every
\* call: when the guest has run, the response body is exactly the bytes the
\* last write_response call read from guest memory (nothing when there was
\* no such call), whatever the guest did before or after that call.
C11_ResponseIsLastCallBytes ==
    (call.fn = "guest" /\ call.done) =>
        call.out.responseBytes
            = BytesReadAt(GuestMsg, call.in, LastWriteResponse(call.in))

C13_PublishSetsActive ==
    [][/\ \A c \in Callers :
            (call.pending[c] # Nil /\ call'.pending[c] = Nil) =>
                LET d == call.pending[c]
                    e == deploys[d].EndpointID
                IN  /\ endpoints'[e].ActiveDeployID = d
                    /\ call'.last.op = "publish" /\ call'.last.ok
                    /\ call'.last.out =
                          [DeploymentID |-> d, URL |-> "http://0.0.0.0:80/live/" \o e]
                    /\ (endpoints[e].ActiveDeployID = d => endpoints' = endpoints)
                    /\ \A x \in DOMAIN endpoints \ {e} : endpoints'[x] = endpoints[x]
       /\ \A e \in DOMAIN endpoints :
            endpoints'[e].ActiveDeployID # endpoints[e].ActiveDeployID =>
                /\ call'.last.op \in {"publish", "rollback"}
                /\ call'.last.ok
                /\ endpoints'[e].ActiveDeployID = call'.last.deploy
                /\ deploys[call'.last.deploy].EndpointID = e]_vars

\* Two clients publish deployments d1 and d2 of endpoint e1 at the same
\* time: the publish of d1 has written and reported, d1 is active, and the
\* publish of d2 has resolved its deployment and not yet written.
C13_Witness ==
    /\ call.fn = "api"
    /\ call.pending["c2"] = "d2"
    /\ call.pending["c1"] = Nil
    /\ {"d1", "d2"} \subseteq DOMAIN deploys
    /\ deploys["d1"].EndpointID = "e1" /\ deploys["d2"].EndpointID = "e1"
    /\ call.last.op = "publish" /\ call.last.ok /\ call.last.deploy = "d1"
    /\ call.last.out.URL = "http://0.0.0.0:80/live/e1"
    /\ endpoints["e1"].ActiveDeployID = "d1"

\* C15: an endpoint is created with a null active reference and the
\* environment it was given; an upload under E creates a deployment whose
\* endpoint is E and leaves every endpoint, E's active reference and its
\* other attributes included, as it was; and a null active reference
\* stops being null only by the write of a publish or a rollback.
C15_ActiveNullUntilPublish ==
    [][/\ \A e \in (DOMAIN endpoints') \ DOMAIN endpoints :
            /\ call'.last.op = "createEndpoint" /\ call'.last.endpoint = e
            /\ endpoints'[e] = [ID |-> e, ActiveDeployID |-> Nil,
                                Environment |-> call'.last.env]
            /\ call'.last.env = [k \in {"FOO"} |-> "BAR"]
       /\ \A d \in (DOMAIN deploys') \ DOMAIN deploys :
            /\ call'.last.op = "createDeploy" /\ call'.last.deploy = d
            /\ deploys'[d].EndpointID = call'.last.endpoint
            /\ call'.last.endpoint \in DOMAIN endpoints
            /\ endpoints' = endpoints
       /\ \A e \in DOMAIN endpoints :
            (endpoints[e].ActiveDeployID = Nil /\ endpoints'[e].ActiveDeployID # Nil)
                => (call'.last.op \in {"publish", "rollback"} /\ call'.last.ok)]_vars

\* Deployments d1 and d2 were uploaded under endpoint e1, the second one
\* just now, and nothing was published: the active reference of e1 is null
\* and its environment is the one it was created with.
C15_Witness ==
    /\ call.fn = "api"
    /\ call.last = [op |-> "createDeploy", ok |-> TRUE, endpoint |-> "e1", deploy |-> "d2"]
    /\ {"d1", "d2"} \subseteq DOMAIN deploys
    /\ deploys["d1"].EndpointID = "e1" /\ deploys["d2"].EndpointID = "e1"
    /\ endpoints["e1"] = [ID |-> "e1", ActiveDeployID |-> Nil,
                          Environment |-> [k \in {"FOO"} |-> "BAR"]]

\* The step in which worker r looks its endpoint up and finds it.
GetEndpointStep(r) == worker[r].pc = "idle" /\ worker'[r].pc = "getDeploy"

\* C14: an update of an endpoint's environment with map U is a merge: after
\* it the environment has every key of U with U's value and every key it
\* had that U does not have with its old value, and no other key; a worker
\* that looks the endpoint up gets the environment the store holds then;
\* and a guest that is started is started with exactly the entries of the
\* environment its worker looked up, as key=value strings.
C14_UpdateMergesEnvironment ==
    [][/\ \A e \in DOMAIN endpoints :
            (/\ call'.last.op = "updateEndpoint" /\ call'.last.ok
             /\ call'.last.endpoint = e) =>
                LET U == call'.last.env
                    old == endpoints[e].Environment
                    new == endpoints'[e].Environment
                IN  /\ DOMAIN new = DOMAIN old \cup DOMAIN U
                    /\ \A k \in DOMAIN U : new[k] = U[k]
                    /\ \A k \in DOMAIN old \ DOMAIN U : new[k] = old[k]
       /\ \A r \in Requests :
            /\ GetEndpointStep(r) =>
                  worker'[r].endpoint.Environment
                      = endpoints[worker[r].msg.EndpointID].Environment
            /\ (ExecStep(r) /\ worker'[r].systemOpened) =>
                  worker'[r].guestEnv
                      = {k \o "=" \o worker[r].endpoint.Environment[k] :
                            k \in DOMAIN worker[r].endpoint.Environment}
            /\ (ExecStep(r) /\ ~worker'[r].systemOpened) => worker'[r].guestEnv = {}]_vars

\* The environment {FOO=BAR} of e1 was updated with {A=B, C=D}; the guest
\* of a request that came after the update was started with A, C and FOO,
\* the guest of a request that was looked up before it with FOO alone.
C14_Witness ==
    /\ call.fn = "api"
    /\ call.last = [op |-> "updateEndpoint", ok |-> TRUE, endpoint |-> "e1",
                    env |-> ("A" :> "B") @@ ("C" :> "D")]
    /\ endpoints["e1"].Environment = ("A" :> "B") @@ ("C" :> "D") @@ ("FOO" :> "BAR")
    /\ worker["r1"].guestEnv = {"FOO=BAR"}
    /\ worker["r2"].guestEnv = {"A=B", "C=D", "FOO=BAR"}
    /\ worker["r2"].result = "ok"

\* C16: the steps of a worker whose lookups succeeded happen in the order
\* exec (the guest runs to its end), response, metric, cache write-back,
\* termination: a response was sent only after exec returned, a metric
\* exists only after the response, the cache was written back only after
\* the metric, and a terminated worker has emitted its metric and written
\* the cache back; poisoned after its response, the worker goes on.
C16_StepOrder ==
    \A r \in Requests :
        /\ worker[r].sent # <<>> => (worker[r].execs = 1 /\ worker[r].result # "none")
        /\ HasMetric(r) => Len(worker[r].sent) = 1
        /\ worker[r].puts >= 1 => HasMetric(r)
        /\ worker[r].poisoned => Len(worker[r].sent) = 1
        /\ worker[r].pc = "terminated" =>
              /\ worker[r].execs = 1
              /\ Len(worker[r].sent) = 1
              /\ HasMetric(r)
              /\ worker[r].puts = 1
              /\ lastPut[worker[r].msg.EndpointID] # NoCache

\* Worker r1 went through all its steps and is terminated; worker r2 has
\* responded and is poisoned, and has yet to emit its metric and to write
\* the cache back.
C16_Witness ==
    /\ worker["r1"].pc = "terminated"
    /\ worker["r1"].execs = 1 /\ Len(worker["r1"].sent) = 1
    /\ HasMetric("r1") /\ worker["r1"].puts = 1
    /\ worker["r2"].pc = "metric"
    /\ worker["r2"].poisoned
    /\ ~HasMetric("r2") /\ worker["r2"].puts = 0

\* The bytes of the data segments of the guests.
GuestData == {"h", "e", "y", "_"}

\* C17: requests that execute in parallel are isolated: the request bytes
\* the module of worker r holds, which are what write_request copies into
\* its guest's memory, are the serialized wire request of r; every response
\* tagged with r's id is the response buffer of r's own worker and is made
\* only of bytes of r's guest (its data segment and r's own request); and
\* the guest that echoes the start of its request answers for r with r's
\* id, whatever the other workers do meanwhile.
C17_RequestsAreIsolated ==
    /\ \A r \in Requests :
          worker[r].pc \in {"exec", "respond", "metric", "cachePut"}
          \/ (Returned(r) /\ ~LookupFailed(r))
              => worker[r].requestBytes
                    = <<r, worker[r].msg.EndpointID, "/" \o r>>
    /\ \A r \in Requests :
          \A m \in {x \in net : x.RequestID = r}
                   \cup {worker[r].sent[i] : i \in 1..Len(worker[r].sent)} :
              /\ m.Response = worker[r].responseBytes
              /\ \A i \in 1..Len(m.Response) :
                    m.Response[i] \in GuestData \cup {r, worker[r].msg.EndpointID, "/" \o r}
              /\ \A r2 \in Requests \ {r} : \A i \in 1..Len(m.Response) :
                    m.Response[i] # r2
              /\ (worker[r].ranBlob = "echo" /\ worker[r].result = "ok")
                    => m.Response = <<r>>

\* Two requests for endpoint e1 are being handled at the same time by the
\* echo guest: worker r1 has sent its response, which holds r1's id, while
\* worker r2 has run its guest, holds r2's id and has yet to respond.
C17_Witness ==
    /\ worker["r1"].pc = "metric" /\ worker["r2"].pc = "respond"
    /\ worker["r1"].msg.EndpointID = "e1" /\ worker["r2"].msg.EndpointID = "e1"
    /\ worker["r1"].ranBlob = "echo" /\ worker["r2"].ranBlob = "echo"
    /\ worker["r1"].sent = <<[Response |-> <<"r1">>, RequestID |-> "r1", StatusCode |-> 200]>>
    /\ worker["r2"].responseBytes = <<"r2">>
    /\ worker["r1"].requestBytes = <<"r1", "e1", "/r1">>
    /\ worker["r2"].requestBytes = <<"r2", "e1", "/r2">>

\* The positions of the separators of a path.
Slashes(p) == {i \in 1..Len(p) : p[i] = "/"}

\* The i-th separator of a path that has at least i of them.
NthSlash(p, i) ==
    CHOOSE x \in Slashes(p) : Cardinality({y \in Slashes(p) : y <= x}) = i

\* C18 (as claimed): the guest-visible path is the HTTP path without its
\* leading /live/{endpoint_id}: for a path /{live}/{id}/{rest} it is
\* "/" followed by rest, for /{live}/{id} it is "/", and for every input
\* path, those of fewer than two segments included, the function returns a
\* path that starts with "/".
C18_TrimmedPathStartsWithSlash ==
    (call.fn = "trimmedEndpointFromURL" /\ call.done) =>
        LET p == call.in IN
        /\ ~call.out.panic
        /\ Len(call.out.val) >= 1 /\ call.out.val[1] = "/"
        /\ (Len(p) >= 1 /\ p[1] = "/" /\ Cardinality(Slashes(p)) = 2)
              => call.out.val = <<"/">>
        /\ (Len(p) >= 1 /\ p[1] = "/" /\ Cardinality(Slashes(p)) >= 3)
              => call.out.val = SubSeq(p, NthSlash(p, 3), Len(p))

\* C19: exec tears down what it built on every exit path: when it has
\* returned because compilation or WASI instantiation failed, the runtime
\* is closed and no WASI system was opened; when it has returned after the
\* guest was instantiated, trapped or ran to its end, the WASI system was
\* closed and then the runtime; nothing is closed before exec ran, and a
\* worker that has responded has closed its runtime.
C19_RuntimeClosedOnEveryPath ==
    \A r \in Requests :
        /\ worker[r].execs = 0 => worker[r].closed = <<>>
        /\ worker[r].execs >= 1 =>
              /\ worker[r].result \in {"compileFailed", "wasiFailed", "guestFailed", "ok"}
              /\ \E i \in 1..Len(worker[r].closed) : worker[r].closed[i] = "runtime.Close"
              /\ worker[r].runtimeClosed
              /\ worker[r].systemOpened = (worker[r].result \in {"guestFailed", "ok"})
              /\ worker[r].systemOpened =>
                    /\ worker[r].systemClosed
                    /\ worker[r].closed = <<"system.Close", "runtime.Close">>
              /\ ~worker[r].systemOpened => worker[r].closed = <<"runtime.Close">>
        /\ worker[r].sent # <<>> => worker[r].runtimeClosed

\* exec of r1 returned early because the blob did not compile and closed
\* its runtime; exec of r2 returned after its guest trapped and closed the
\* WASI system and the runtime.
C19_Witness ==
    /\ worker["r1"].result = "compileFailed"
    /\ worker["r1"].closed = <<"runtime.Close">>
    /\ worker["r2"].result = "guestFailed"
    /\ worker["r2"].closed = <<"system.Close", "runtime.Close">>
    /\ worker["r2"].pc = "respond"

\* C20: ParseStdout partitions its input: for a byte sequence of length
\* n >= 8 whose last four bytes, read as a little-endian number L, give
\* L <= n - 8, it returns no error and logs, resp and status such that
\* logs followed by resp followed by the last 8 bytes is the input, resp
\* has length L and status is the little-endian value of the four bytes
\* before the length; for n < 8 or L > n - 8 it returns an error.
C20_ParseStdoutPartitions ==
    (call.fn = "ParseStdout" /\ call.done) =>
        LET b == call.in
            n == Len(b)
            L == b[n - 3] + 256 * b[n - 2] + 65536 * b[n - 1] + 16777216 * b[n]
        IN  IF n >= 8 /\ L <= n - 8
            THEN /\ ~call.out.err
                 /\ call.out.logs \o call.out.resp \o SubSeq(b, n - 7, n) = b
                 /\ Len(call.out.resp) = L
                 /\ call.out.status
                       = b[n - 7] + 256 * b[n - 6] + 65536 * b[n - 5] + 16777216 * b[n - 4]
            ELSE call.out.err

\* An output of one log byte, one response byte and the trailer was parsed
\* into its three parts, with a status above 255.
C20_Witness ==
    /\ call.fn = "ParseStdout" /\ call.done
    /\ ~call.out.err
    /\ call.in = <<1, 2, 2, 1, 0, 0, 1, 0, 0, 0>>
    /\ call.out.logs = <<1>>
    /\ call.out.resp = <<2>>
    /\ call.out.status = 258

\* The last sixteen characters of a string that has that many.
TrailerOf(in) == SubSeq(in, Len(in) - TrailerLen + 1, Len(in))

\* The hex digits among the characters of the inputs.
HexDigits == {"0", "1", "2"}

\* The little-endian number that the eight hex digits of t from position
\* first on encode, two digits a byte.
EncodedUint32(t, first) ==
    LET Digit(c) == CASE c = "0" -> 0 [] c = "1" -> 1 [] c = "2" -> 2
        Byte(k) == 16 * Digit(t[first + 2 * k]) + Digit(t[first + 2 * k + 1])
    IN  Byte(0) + 256 * Byte(1) + 65536 * Byte(2) + 16777216 * Byte(3)

\* The input is well formed: it has a trailer of sixteen hex digits, and
\* the length the trailer encodes is at most the number of characters
\* before it.
WellFormedHttp(in) ==
    /\ Len(in) >= TrailerLen
    /\ \A i \in 1..TrailerLen : TrailerOf(in)[i] \in HexDigits
    /\ EncodedUint32(TrailerOf(in), 9) <= Len(in) - TrailerLen

\* C21: ParseRuntimeHTTPResponse never indexes out of range; it returns an
\* error for an input shorter than 16 characters, for one whose last 16
\* characters are not all hex digits, and for one whose encoded response
\* length is more than the characters before the trailer; for every other
\* input it returns no error, the encoded status, and as response the
\* characters of the encoded length that end where the trailer begins.
C21_MalformedInputIsAnError ==
    (call.fn = "ParseRuntimeHTTPResponse" /\ call.done) =>
        /\ ~call.out.panic
        /\ IF WellFormedHttp(call.in)
           THEN LET t == TrailerOf(call.in)
                    L == EncodedUint32(t, 9)
                    n == Len(call.in)
                IN  /\ ~call.out.err
                    /\ call.out.status = EncodedUint32(t, 1)
                    /\ Len(call.out.resp) = L
                    /\ call.out.resp \o t = SubSeq(call.in, n - TrailerLen - L + 1, n)
           ELSE call.out.err

====
